---- MODULE Spec2Model ----
(***************************************************************************)
(* Model of src/src/App.jsx: the tower-cluster locator                     *)
(* (findTowerClusterCenter), the coverage grid builder (generateGrid), the *)
(* HDOP estimator (computeHdop) and the App component's state machine.     *)
(*                                                                         *)
(* Number representation.                                                  *)
(*   - an angle is an integer number of millidegrees (0.001 degree);       *)
(*   - a quotient is a rational [num, den] in lowest terms, den > 0;       *)
(*     den = 0 stands for NaN (0/0), which every operation propagates;     *)
(*   - a distance is an integer number of metres, computed in fixed point  *)
(*     (within 2 m of the double-precision value below 1 km on the         *)
(*     positions used here, and on the same side of the threshold).        *)
(* Floating-point rounding is not modelled.                                *)
(***************************************************************************)
EXTENDS Integers, Sequences, FiniteSets, TLC

VARIABLES
  \* App component state (useState hooks, lines 156-161) and file reads in flight
  tab, towers, precision, mapCenter, overlayType, gridData, pendingReads,
  \* one run of findTowerClusterCenter: its argument, locals and return value
  ltowers, groups, li, lpc, lresult,
  \* one run of generateGrid / computeHdop: arguments, locals and return values
  gtowers, gres, gpc, gbox, gresult, hpc, hquery, hresult

appVars == <<tab, towers, precision, mapCenter, overlayType, gridData, pendingReads>>
locVars == <<ltowers, groups, li, lpc, lresult>>
gridVars == <<gtowers, gres, gpc, gbox, gresult, hpc, hquery, hresult>>
vars == <<appVars, locVars, gridVars>>

----------------------------------------------------------------------------
(* Bounds of the model *)

\* longest tower list given to findTowerClusterCenter
MaxLocTowers == 3
\* longest tower list given to generateGrid / computeHdop
MaxGridTowers == 3
\* longest tower list the App holds
MaxAppTowers == 3
\* file reads that may be in flight at once
MaxPending == 1

----------------------------------------------------------------------------
(* Arithmetic helpers *)

Abs(x) == IF x < 0 THEN -x ELSE x

Sq(x) == x * x

RECURSIVE Gcd(_, _)
Gcd(a, b) == IF b = 0 THEN Abs(a) ELSE Gcd(Abs(b), Abs(a) % Abs(b))

RECURSIVE IsqrtIter(_, _, _)
IsqrtIter(n, lo, hi) ==
  IF lo >= hi THEN lo
  ELSE LET mid == (lo + hi + 1) \div 2
       IN IF mid * mid <= n THEN IsqrtIter(n, mid, hi) ELSE IsqrtIter(n, lo, mid - 1)

\* Math.sqrt on a non-negative integer, rounded down
Isqrt(n) == IsqrtIter(n, 0, IF n < 46340 THEN n ELSE 46340)

\* a JavaScript number that is a quotient of integers; den = 0 is NaN
NaN == [num |-> 0, den |-> 0]

IsNaN(r) == r.den = 0

Rat(n, d) ==
  IF d = 0 THEN NaN
  ELSE LET g == Gcd(n, d)
           s == IF d < 0 THEN -1 ELSE 1
       IN [num |-> s * (n \div g), den |-> s * (d \div g)]

Int2Rat(n) == [num |-> n, den |-> 1]

RatAdd(a, b) ==
  IF IsNaN(a) \/ IsNaN(b) THEN NaN
  ELSE LET g == Gcd(a.den, b.den)
       IN Rat(a.num * (b.den \div g) + b.num * (a.den \div g), (a.den \div g) * b.den)

RatNeg(a) == [num |-> -a.num, den |-> a.den]

RatSub(a, b) == RatAdd(a, RatNeg(b))

RatMul(a, b) ==
  IF IsNaN(a) \/ IsNaN(b) THEN NaN
  ELSE LET g1 == Gcd(a.num, b.den)
           g2 == Gcd(b.num, a.den)
       IN IF a.num = 0 \/ b.num = 0 THEN Int2Rat(0)
          ELSE Rat((a.num \div g1) * (b.num \div g2), (a.den \div g2) * (b.den \div g1))

\* a / b for b # 0 (the only divisions by a computed value follow a zero test)
RatDiv(a, b) ==
  IF IsNaN(a) \/ IsNaN(b) THEN NaN
  ELSE RatMul(a, Rat(b.den, b.num))

RatIsZero(a) == ~IsNaN(a) /\ a.num = 0

----------------------------------------------------------------------------
(* findTowerClusterCenter (lines 126-153) *)

\* distanceThreshold = 0.3 km, in metres
distanceThreshold == 300

earthRadiusKm == 6371

\* toRad and the Earth radius together: metres of arc per degree,
\* earthRadiusKm * 1000 * PI / 180 = 111194.9...
MetresPerDegree == (earthRadiusKm * 31416) \div 1800

\* cosine of an angle given in millidegrees, in thousandths (Bhaskara's
\* rational approximation on the nearest whole degree, exact at 0, 60 and 90)
CosPm(lat) ==
  LET d == (Abs(lat) + 500) \div 1000
  IN (1000 * (32400 - 4 * d * d)) \div (32400 + d * d)

\* angles beyond this many millidegrees are far above the threshold; the
\* small-angle form below is applied to the clamped angle, which keeps the
\* result above 1 km for every latitude with cosine >= 1/2
SmallAngle == 25

Clamp(x) == IF x > SmallAngle THEN SmallAngle ELSE IF x < -SmallAngle THEN -SmallAngle ELSE x

\* lines 133-134: a = sin^2(dLat/2) + cos(lat1) cos(lat2) sin^2(dLon/2) and
\* R * 2 * atan2(sqrt a, sqrt(1 - a)), in metres.  For the small angles that
\* decide the comparison with the threshold this is
\* R * sqrt(dLat^2 + cos(lat1) cos(lat2) dLon^2) with the angles in radians.
GreatCircle(lat1, lat2, dLat, dLon) ==
  LET cc == (CosPm(lat1) * CosPm(lat2)) \div 10000
      chord100 == 100 * Sq(Clamp(dLat)) + cc * Sq(Clamp(dLon))
  IN (MetresPerDegree * Isqrt(100 * chord100)) \div 100000

\* lines 130-135; dLon is computed from lat2 and lon1, as the source does
haversine(lat1, lon1, lat2, lon2) ==
  LET dLat == lat2 - lat1
      dLon == lat2 - lon1
  IN GreatCircle(lat1, lat2, dLat, dLon)

\* line 141, the predicate given to group.some
Near(t, base) ==
  haversine(t.lat, t.lng, base.lat, base.lng) < distanceThreshold

\* line 141: group.some(...) over a group of indices into tws
GroupSome(tws, group, base) ==
  \E k \in 1..Len(group) : Near(tws[group[k]], base)

RECURSIVE ScanGroups(_, _, _, _)
\* lines 140-146: the for-of loop from group g on; the index of the group
\* that receives base, 0 when the loop ends with found = false
ScanGroups(tws, gs, base, g) ==
  IF g > Len(gs) THEN 0
  ELSE IF GroupSome(tws, gs[g], base) THEN g
  ELSE ScanGroups(tws, gs, base, g + 1)

AddTower_nobreak(tws, gs, i) ==
  LET hit == {g \in 1..Len(gs) : GroupSome(tws, gs[g], tws[i])}
  IN IF hit = {} THEN Append(gs, <<i>>)
     ELSE [g \in 1..Len(gs) |-> IF g \in hit THEN Append(gs[g], i) ELSE gs[g]]

AddTower_last(tws, gs, i) ==
  LET hit == {g \in 1..Len(gs) : GroupSome(tws, gs[g], tws[i])}
  IN IF hit = {} THEN Append(gs, <<i>>)
     ELSE LET m == CHOOSE g \in hit : \A h \in hit : h <= g
          IN [gs EXCEPT ![m] = Append(@, i)]

\* lines 138-147: one iteration of the outer loop, for towers[i]
AddTower(tws, gs, i) ==
  LET g == ScanGroups(tws, gs, tws[i], 1)
  IN IF g # 0 THEN [gs EXCEPT ![g] = Append(@, i)]
     ELSE Append(gs, <<i>>)

RECURSIVE GroupsAfter(_, _)
\* lines 136-148: groups after the first n iterations
GroupsAfter(tws, n) ==
  IF n = 0 THEN <<>> ELSE AddTower(tws, GroupsAfter(tws, n - 1), n)

Pick_ge(a, b) == IF Len(a) >= Len(b) THEN a ELSE b

\* line 149, the reducer (a, b) => (a.length > b.length ? a : b)
Pick(a, b) == IF Len(a) > Len(b) THEN a ELSE b

RECURSIVE ReduceLargest(_, _)
\* line 149: groups.reduce(Pick, []) over the first n groups
ReduceLargest(gs, n) ==
  IF n = 0 THEN <<>> ELSE Pick(ReduceLargest(gs, n - 1), gs[n])

RECURSIVE SumLat(_, _, _)
SumLat(tws, group, n) ==
  IF n = 0 THEN 0 ELSE SumLat(tws, group, n - 1) + tws[group[n]].lat

RECURSIVE SumLng(_, _, _)
SumLng(tws, group, n) ==
  IF n = 0 THEN 0 ELSE SumLng(tws, group, n - 1) + tws[group[n]].lng

NullCenter == [kind |-> "null", lat |-> NaN, lng |-> NaN]

\* lines 150-152: the means over one group, returned as [avgLat, avgLng]
CenterOf(tws, group) ==
  [kind |-> "center",
   lat  |-> Rat(SumLat(tws, group, Len(group)), Len(group)),
   lng  |-> Rat(SumLng(tws, group, Len(group)), Len(group))]

\* lines 149-152
Centroid(tws, gs) == CenterOf(tws, ReduceLargest(gs, Len(gs)))

NoTowers_le1(tws) == Len(tws) <= 1

\* line 127: towers.length === 0
NoTowers(tws) == Len(tws) = 0

\* lines 126-153
findTowerClusterCenter(tws) ==
  IF NoTowers(tws) THEN NullCenter
  ELSE Centroid(tws, GroupsAfter(tws, Len(tws)))

----------------------------------------------------------------------------
(* computeHdop (lines 100-116), mathTranspose, mathMultiply (lines 118-124) *)

TooFewTowers_lt2(tws) == Len(tws) < 2

\* lines 80 and 101: towers.length < 3
TooFewTowers(tws) == Len(tws) < 3

\* Math.sqrt(r), kept as its radicand; Math.sqrt of NaN or of a negative
\* number is NaN
SqrtOf(r) == [radicand |-> IF IsNaN(r) \/ r.num < 0 THEN NaN ELSE r]

\* the sentinel 100
Hundred == SqrtOf(Int2Rat(10000))

\* lines 103-106: the row [dx / norm, dy / norm] with norm = sqrt(normSq);
\* an entry is kept as [num, normSq], standing for num / sqrt(normSq)
UnitVector(t, lat, lng) ==
  LET dx == t.lng - lng
      dy == t.lat - lat
      normSq == dx * dx + dy * dy
  IN << [num |-> dx, normSq |-> normSq], [num |-> dy, normSq |-> normSq] >>

\* v * b[i][j] at line 123 for two entries of the same row of A:
\* (p / norm) * (q / norm) = p q / norm^2, which is 0/0 = NaN for norm = 0
EntryTimes(u, v) == Rat(u.num * v.num, u.normSq)

\* lines 118-120
mathTranspose(m) ==
  [i \in 1..Len(m[1]) |-> [r \in 1..Len(m) |-> m[r][i]]]

RECURSIVE RowReduce(_, _, _, _)
\* line 123: row.reduce((sum, v, i) => sum + v * b[i][j], 0) over the first n
RowReduce(row, b, j, n) ==
  IF n = 0 THEN Int2Rat(0)
  ELSE RatAdd(RowReduce(row, b, j, n - 1), EntryTimes(row[n], b[n][j]))

\* lines 122-124
mathMultiply(a, b) ==
  [r \in 1..Len(a) |-> [j \in 1..Len(b[1]) |-> RowReduce(a[r], b, j, Len(a[r]))]]

\* line 110: det === 0 (false for NaN)
DetIsZero(det) == RatIsZero(det)

\* lines 100-116
computeHdop(lat, lng, tws) ==
  IF TooFewTowers(tws) THEN Hundred
  ELSE LET A == [i \in 1..Len(tws) |-> UnitVector(tws[i], lat, lng)]
           G == mathMultiply(mathTranspose(A), A)
           det == RatSub(RatMul(G[1][1], G[2][2]), RatMul(G[1][2], G[2][1]))
       IN IF DetIsZero(det) THEN Hundred
          ELSE LET inv == << << RatDiv(G[2][2], det), RatNeg(RatDiv(G[1][2], det)) >>,
                             << RatNeg(RatDiv(G[2][1], det)), RatDiv(G[1][1], det) >> >>
               IN SqrtOf(RatAdd(inv[1][1], inv[2][2]))

----------------------------------------------------------------------------
(* generateGrid (lines 78-98) *)

Min(a, b) == IF a < b THEN a ELSE b

Max(a, b) == IF a > b THEN a ELSE b

\* 90 and 180 degrees (line 82), in millidegrees
LatLimit == 90000

LngLimit == 180000

BoxStart_zero == [latMin |-> 0, latMax |-> 0, lngMin |-> 0, lngMax |-> 0]

\* line 82
BoxStart ==
  [latMin |-> LatLimit, latMax |-> -LatLimit, lngMin |-> LngLimit, lngMax |-> -LngLimit]

RECURSIVE BoundingBox(_, _)
\* lines 83-88: the forEach over the first n towers
BoundingBox(tws, n) ==
  IF n = 0 THEN BoxStart
  ELSE LET b == BoundingBox(tws, n - 1)
           t == tws[n]
       IN [latMin |-> Min(b.latMin, t.lat), latMax |-> Max(b.latMax, t.lat),
           lngMin |-> Min(b.lngMin, t.lng), lngMax |-> Max(b.lngMax, t.lng)]

WithinMax_lt(x, max) == x < max

\* the loop conditions lat <= latMax and lng <= lngMax (lines 90-91)
WithinMax(x, max) == x <= max

RECURSIVE GridRow(_, _, _, _, _)
\* lines 91-94: the inner loop from lng on
GridRow(tws, res, b, lat, lng) ==
  IF WithinMax(lng, b.lngMax)
  THEN << [lat |-> lat, lng |-> lng, hdop |-> computeHdop(lat, lng, tws), res |-> res] >>
         \o GridRow(tws, res, b, lat, lng + res)
  ELSE <<>>

RECURSIVE GridRows(_, _, _, _)
\* lines 90-95: the outer loop from lat on
GridRows(tws, res, b, lat) ==
  IF WithinMax(lat, b.latMax)
  THEN GridRow(tws, res, b, lat, b.lngMin) \o GridRows(tws, res, b, lat + res)
  ELSE <<>>

\* lines 90-91 with res <= 0: lat and lng never pass the maxima and the
\* loops do not end
GridHangs(tws, res) == ~TooFewTowers(tws) /\ res <= 0

\* lines 78-98, for the arguments on which the loops end
generateGrid(tws, res) ==
  IF TooFewTowers(tws) THEN <<>>
  ELSE LET b == BoundingBox(tws, Len(tws))
       IN GridRows(tws, res, b, b.latMin)

----------------------------------------------------------------------------
(* Inputs *)

RECURSIVE SeqsOfLen(_, _)
SeqsOfLen(S, n) ==
  IF n = 0 THEN {<<>>}
  ELSE {Append(q, x) : q \in SeqsOfLen(S, n - 1), x \in S}

SeqsUpTo(S, n) == UNION {SeqsOfLen(S, k) : k \in 0..n}

\* tower positions given to findTowerClusterCenter, in millidegrees: around
\* (0, 0), with longitudes far from the latitudes, and on the 60th parallel
LocLats == {0, 1, 2, 60000}
LocLngs == {0, 2, 60000}
LocTowers == [lat : LocLats, lng : LocLngs]

\* what the user of the App can enter: positions clicked or dragged to,
\* tower ids (Date.now() values, or whatever a file holds), the options of
\* the precision select that are whole millidegrees (0.001 and 0.01 degree),
\* and the files offered to the file input
AppPositions == {<<0, 0>>, <<1, 1>>}
AppIds == {1, 2}
PrecisionOptions == {1, 10}
OverlayTypes == {"heatmap", "pixel_grid"}
TowerAt(id, pos) == [id |-> id, lat |-> pos[1], lng |-> pos[2]]
FileTowers == << TowerAt(1, <<0, 0>>), TowerAt(2, <<0, 1>>), TowerAt(2, <<1, 0>>) >>
Files ==
  { [shape |-> "array", towers |-> FileTowers, precision |-> 0],
    [shape |-> "object", towers |-> FileTowers, precision |-> 10],
    [shape |-> "invalid", towers |-> <<>>, precision |-> 0] }

\* tower positions, resolutions and query points given to generateGrid and
\* computeHdop, in millidegrees
GridLats == {-1, 0, 1}
GridLngs == {-1, 1}
GridTowers == [lat : GridLats, lng : GridLngs]
GridResolutions == {-1, 1, 2}
QueryPoints == [lat : {-1, 0, 2}, lng : {-1, 0}]

----------------------------------------------------------------------------
(* One call of findTowerClusterCenter, an iteration of its loop per step *)

\* lines 156-161: the useState initial values; 0.001 degree is 1 millidegree
\* and [37.7749, -122.4194] degrees is [377749/10, -1224194/10] millidegrees
IdleApp ==
  /\ tab = "planner"
  /\ towers = <<>>
  /\ precision = 1
  /\ mapCenter = [kind |-> "center", lat |-> Rat(377749, 10), lng |-> Rat(-1224194, 10)]
  /\ overlayType = "heatmap"
  /\ gridData = <<>>
  /\ pendingReads = <<>>

IdleLocate ==
  /\ ltowers = <<>>
  /\ groups = <<>>
  /\ li = 0
  /\ lpc = "idle"
  /\ lresult = NullCenter

IdleGrid ==
  /\ gtowers = <<>>
  /\ gres = 1
  /\ gpc = "idle"
  /\ gbox = [latMin |-> 0, latMax |-> 0, lngMin |-> 0, lngMax |-> 0]
  /\ gresult = <<>>
  /\ hpc = "idle"
  /\ hquery = [lat |-> 0, lng |-> 0]
  /\ hresult = [radicand |-> NaN]

InitLocate ==
  /\ ltowers \in SeqsUpTo(LocTowers, MaxLocTowers)
  /\ groups = <<>>
  /\ li = 0
  /\ lpc = "loop"
  /\ lresult = NullCenter
  /\ IdleApp
  /\ IdleGrid

\* line 127
LocateNull ==
  /\ lpc = "loop"
  /\ NoTowers(ltowers)
  /\ lresult' = NullCenter
  /\ lpc' = "done"
  /\ UNCHANGED <<ltowers, groups, li, appVars, gridVars>>

\* lines 137-148, one iteration
LocateStep ==
  /\ lpc = "loop"
  /\ ~NoTowers(ltowers)
  /\ li < Len(ltowers)
  /\ li' = li + 1
  /\ groups' = AddTower(ltowers, groups, li + 1)
  /\ UNCHANGED <<ltowers, lpc, lresult, appVars, gridVars>>

\* lines 149-152
LocateReturn ==
  /\ lpc = "loop"
  /\ ~NoTowers(ltowers)
  /\ li = Len(ltowers)
  /\ lresult' = Centroid(ltowers, groups)
  /\ lpc' = "done"
  /\ UNCHANGED <<ltowers, groups, li, appVars, gridVars>>

NextLocate == LocateNull \/ LocateStep \/ LocateReturn

SpecLocate == InitLocate /\ [][NextLocate]_vars

----------------------------------------------------------------------------
(* Claims about findTowerClusterCenter *)

GroupSizes == {Len(groups[g]) : g \in 1..Len(groups)}

MaxSize == CHOOSE n \in GroupSizes : \A m \in GroupSizes : m <= n

LargestGroups == {g \in 1..Len(groups) : Len(groups[g]) = MaxSize}

FirstLargest == CHOOSE g \in LargestGroups : \A h \in LargestGroups : g <= h

LastLargest == CHOOSE g \in LargestGroups : \A h \in LargestGroups : h <= g

TowerPoint(t) == [kind |-> "center", lat |-> Int2Rat(t.lat), lng |-> Int2Rat(t.lng)]

TwoSingletons == Len(ltowers) = 2 /\ groups = << <<1>>, <<2>> >>

Returned == lpc = "done" /\ ltowers # <<>>

\* C1 (as stated): the centroid is taken over a group of maximum size, the
\* earliest created one among those of maximum size; two towers in two
\* singleton groups give the first tower's coordinates.
C1_EarliestLargestWins ==
  Returned =>
    /\ lresult = CenterOf(ltowers, groups[FirstLargest])
    /\ TwoSingletons => lresult = TowerPoint(ltowers[1])

\* C1 (amended): the centroid is taken over a group of maximum size, the
\* latest created one among those of maximum size; two towers in two
\* singleton groups give the second tower's coordinates.
C1_LatestLargestWins ==
  Returned =>
    /\ lresult = CenterOf(ltowers, groups[LastLargest])
    /\ TwoSingletons => lresult = TowerPoint(ltowers[2])

C1_Witness ==
  /\ Returned
  /\ TwoSingletons
  /\ ltowers[1] # ltowers[2]
  /\ lresult = TowerPoint(ltowers[2])

\* C4: once the grouping loop has run over the whole list, every input tower
\* is in exactly one place of exactly one group, no group is empty, and the
\* group sizes sum to the number of towers.
Places == {<<g, k>> \in (1..Len(groups)) \X (1..Len(ltowers)) : k <= Len(groups[g])}

RECURSIVE SumSizes(_)
SumSizes(n) == IF n = 0 THEN 0 ELSE SumSizes(n - 1) + Len(groups[n])

C4_GroupsPartition ==
  (lpc \in {"loop", "done"} /\ li = Len(ltowers)) =>
    /\ \A i \in 1..Len(ltowers) :
         Cardinality({p \in Places : groups[p[1]][p[2]] = i}) = 1
    /\ \A g \in 1..Len(groups) : Len(groups[g]) > 0
    /\ SumSizes(Len(groups)) = Len(ltowers)

C4_Witness ==
  /\ lpc = "loop"
  /\ li = Len(ltowers)
  /\ li = 3
  /\ groups = << <<1, 3>>, <<2>> >>

\* C5: each step takes the next tower in input order and appends it to the
\* first group, in creation order, that has a member strictly nearer than
\* the threshold, or else appends a new singleton group; every other group
\* keeps its members and its place.
Qualifying(base) ==
  {g \in 1..Len(groups) :
     \E k \in 1..Len(groups[g]) :
        haversine(ltowers[groups[g][k]].lat, ltowers[groups[g][k]].lng,
                  base.lat, base.lng) < distanceThreshold}

C5_FirstQualifyingGroup ==
  [][ (groups' # groups \/ li' # li) =>
        /\ li' = li + 1
        /\ LET Q == Qualifying(ltowers[li'])
           IN IF Q = {}
              THEN groups' = Append(groups, <<li'>>)
              ELSE \E m \in Q :
                     /\ \A h \in Q : m <= h
                     /\ groups' = [groups EXCEPT ![m] = Append(@, li')] ]_vars

C5_Witness ==
  /\ li = 3
  /\ groups = << <<1, 3>>, <<2>> >>
  /\ Near(ltowers[2], ltowers[3])

\* the haversine formula as usually stated, with dLon = lon2 - lon1
haversineDistance(lat1, lon1, lat2, lon2) ==
  GreatCircle(lat1, lat2, lat2 - lat1, lon2 - lon1)

\* C6: two towers whose great-circle distance (the haversine formula with
\* dLon = lon2 - lon1) is below the threshold end in one group and the
\* midpoint is returned, wherever the towers are.
C6_CloseTowersShareAGroup ==
  (lpc = "done" /\ Len(ltowers) = 2
     /\ haversineDistance(ltowers[1].lat, ltowers[1].lng,
                          ltowers[2].lat, ltowers[2].lng) < distanceThreshold) =>
    /\ groups = << <<1, 2>> >>
    /\ lresult = [kind |-> "center",
                  lat |-> Rat(ltowers[1].lat + ltowers[2].lat, 2),
                  lng |-> Rat(ltowers[1].lng + ltowers[2].lng, 2)]

\* C9: the result is null exactly for the empty list; otherwise it is the
\* mean of lat and of lng over a non-empty group (no division by zero), and
\* for a single tower it is that tower's coordinates.
C9_NullIffEmpty ==
  lpc = "done" =>
    /\ (lresult.kind = "null") <=> (ltowers = <<>>)
    /\ ltowers # <<>> =>
         /\ ~IsNaN(lresult.lat) /\ ~IsNaN(lresult.lng)
         /\ \E g \in 1..Len(groups) :
              /\ Len(groups[g]) > 0
              /\ lresult.lat.num * Len(groups[g])
                   = lresult.lat.den * SumLat(ltowers, groups[g], Len(groups[g]))
              /\ lresult.lng.num * Len(groups[g])
                   = lresult.lng.den * SumLng(ltowers, groups[g], Len(groups[g]))
    /\ Len(ltowers) = 1 => lresult = TowerPoint(ltowers[1])

C9_Witness ==
  /\ lpc = "done"
  /\ Len(ltowers) = 1
  /\ ltowers[1].lat = 60000
  /\ lresult = TowerPoint(ltowers[1])

----------------------------------------------------------------------------
(* One call of generateGrid, then one of computeHdop: the two are pure and *)
(* share no state, so the order of the calls is immaterial                *)

InitGrid ==
  /\ gtowers \in SeqsUpTo(GridTowers, MaxGridTowers)
  /\ gres \in GridResolutions
  /\ gpc = "idle"
  /\ gbox = BoxStart
  /\ gresult = <<>>
  /\ hpc = "idle"
  /\ hquery = [lat |-> 0, lng |-> 0]
  /\ hresult = [radicand |-> NaN]
  /\ IdleApp
  /\ IdleLocate

\* generateGrid(gtowers, gres) returns
Build ==
  /\ gpc = "idle"
  /\ hpc = "idle"
  /\ ~GridHangs(gtowers, gres)
  /\ gbox' = IF TooFewTowers(gtowers) THEN gbox ELSE BoundingBox(gtowers, Len(gtowers))
  /\ gresult' = generateGrid(gtowers, gres)
  /\ gpc' = "built"
  /\ UNCHANGED <<gtowers, gres, hpc, hquery, hresult, appVars, locVars>>

\* generateGrid(gtowers, gres) does not return
BuildHangs ==
  /\ gpc = "idle"
  /\ hpc = "idle"
  /\ GridHangs(gtowers, gres)
  /\ gbox' = BoundingBox(gtowers, Len(gtowers))
  /\ gpc' = "hung"
  /\ UNCHANGED <<gtowers, gres, gresult, hpc, hquery, hresult, appVars, locVars>>

\* computeHdop(q.lat, q.lng, gtowers) returns
Estimate ==
  /\ gpc # "hung"
  /\ hpc = "idle"
  /\ \E q \in QueryPoints :
       /\ hquery' = q
       /\ hresult' = computeHdop(q.lat, q.lng, gtowers)
  /\ hpc' = "estimated"
  /\ UNCHANGED <<gtowers, gres, gpc, gbox, gresult, appVars, locVars>>

NextGrid == Build \/ BuildHangs \/ Estimate

SpecGrid == InitGrid /\ [][NextGrid]_vars

----------------------------------------------------------------------------
(* Claims about generateGrid and computeHdop *)

FiniteNonNegative(h) == ~IsNaN(h.radicand) /\ h.radicand.num >= 0

\* C2: with three towers or more, every grid point's hdop, and the hdop at
\* any query point, is a finite non-negative number or the sentinel 100,
\* also where the point coincides with a tower.
C2_HdopFiniteOrSentinel ==
  ~TooFewTowers(gtowers) =>
    /\ gpc = "built" =>
         \A k \in 1..Len(gresult) :
            FiniteNonNegative(gresult[k].hdop) \/ gresult[k].hdop = Hundred
    /\ hpc = "estimated" => FiniteNonNegative(hresult) \/ hresult = Hundred

\* C3: with fewer than three towers generateGrid returns the empty list for
\* every resolution, and computeHdop returns 100 at every query point.
C3_FewTowersSentinels ==
  Len(gtowers) < 3 =>
    /\ gpc # "hung"
    /\ gpc = "built" => gresult = <<>>
    /\ hpc = "estimated" => hresult.radicand = Int2Rat(10000)

C3_Witness ==
  /\ Len(gtowers) = 2
  /\ gtowers[1] # gtowers[2]
  /\ gres = -1
  /\ gpc = "built"
  /\ gresult = <<>>
  /\ hpc = "estimated"
  /\ hresult.radicand = Int2Rat(10000)

\* C7: with three towers or more and a positive resolution the grid holds,
\* in latitude-major then longitude order, one point for each
\* (latMin + i res, lngMin + j res) within the bounding box, each carrying
\* the resolution; no point lies outside the box.
LatSteps == (gbox.latMax - gbox.latMin) \div gres + 1

LngSteps == (gbox.lngMax - gbox.lngMin) \div gres + 1

TowersInRange ==
  \A i \in 1..Len(gtowers) :
     /\ -LatLimit <= gtowers[i].lat /\ gtowers[i].lat <= LatLimit
     /\ -LngLimit <= gtowers[i].lng /\ gtowers[i].lng <= LngLimit

C8_BoxContainsTowers ==
  (gpc \in {"built", "hung"} /\ Len(gtowers) >= 3 /\ TowersInRange) =>
    /\ \A i \in 1..Len(gtowers) :
         /\ gbox.latMin <= gtowers[i].lat /\ gtowers[i].lat <= gbox.latMax
         /\ gbox.lngMin <= gtowers[i].lng /\ gtowers[i].lng <= gbox.lngMax
    /\ \E i \in 1..Len(gtowers) : gtowers[i].lat = gbox.latMin
    /\ \E i \in 1..Len(gtowers) : gtowers[i].lat = gbox.latMax
    /\ \E i \in 1..Len(gtowers) : gtowers[i].lng = gbox.lngMin
    /\ \E i \in 1..Len(gtowers) : gtowers[i].lng = gbox.lngMax

C8_Witness ==
  /\ gpc = "built"
  /\ Len(gtowers) >= 3
  /\ gbox = [latMin |-> 0, latMax |-> 1, lngMin |-> 1, lngMax |-> 1]

----------------------------------------------------------------------------
(* The App component (lines 155-257) with TowerEditor (lines 8-35) *)

\* lines 189-193: the effect body, run after a render in which precision or
\* overlayType changed; the grid it leaves in gridData
EffectGrid(tws, prec, grid) ==
  IF Len(tws) > 2 /\ tab' = "analysis" THEN generateGrid(tws, prec) ELSE grid

Init ==
  /\ IdleApp
  /\ IdleLocate
  /\ IdleGrid

\* lines 10-12: a click on the map of the planner tab
MapClick ==
  /\ tab = "planner"
  /\ Len(towers) < MaxAppTowers
  /\ \E id \in AppIds, pos \in AppPositions :
       towers' = Append(towers, TowerAt(id, pos))
  /\ UNCHANGED <<tab, precision, mapCenter, overlayType, gridData, pendingReads>>
  /\ UNCHANGED <<locVars, gridVars>>

\* lines 23-26: a marker of the planner tab is dropped at a new position
DragEnd ==
  /\ tab = "planner"
  /\ \E i \in 1..Len(towers), pos \in AppPositions :
       towers' = [k \in 1..Len(towers) |->
                    IF towers[k].id = towers[i].id
                    THEN [towers[k] EXCEPT !.lat = pos[1], !.lng = pos[2]]
                    ELSE towers[k]]
  /\ UNCHANGED <<tab, precision, mapCenter, overlayType, gridData, pendingReads>>
  /\ UNCHANGED <<locVars, gridVars>>

\* lines 27-29: the context menu of a marker of the planner tab
ContextMenu ==
  /\ tab = "planner"
  /\ \E i \in 1..Len(towers) :
       towers' = SelectSeq(towers, LAMBDA t : t.id # towers[i].id)
  /\ UNCHANGED <<tab, precision, mapCenter, overlayType, gridData, pendingReads>>
  /\ UNCHANGED <<locVars, gridVars>>

\* lines 198-199: the other tab's button
SwitchTab ==
  /\ tab' = IF tab = "planner" THEN "analysis" ELSE "planner"
  /\ UNCHANGED <<towers, precision, mapCenter, overlayType, gridData, pendingReads>>
  /\ UNCHANGED <<locVars, gridVars>>

\* line 230, then the effect of lines 189-193
SetOverlayType ==
  /\ tab = "analysis"
  /\ \E v \in OverlayTypes \ {overlayType} : overlayType' = v
  /\ tab' = tab
  /\ gridData' = EffectGrid(towers, precision, gridData)
  /\ UNCHANGED <<towers, precision, mapCenter, pendingReads>>
  /\ UNCHANGED <<locVars, gridVars>>

\* line 237, then the effect of lines 189-193
SetPrecision ==
  /\ tab = "analysis"
  /\ \E p \in PrecisionOptions \ {precision} : precision' = p
  /\ tab' = tab
  /\ gridData' = EffectGrid(towers, precision', gridData)
  /\ UNCHANGED <<towers, mapCenter, overlayType, pendingReads>>
  /\ UNCHANGED <<locVars, gridVars>>

\* lines 163-164 and 186: a file is chosen and its read starts; the onload
\* callback closes over this render's precision
FileChosen ==
  /\ Len(pendingReads) < MaxPending
  /\ \E f \in Files :
       pendingReads' = Append(pendingReads, [file |-> f, precision |-> precision])
  /\ UNCHANGED <<tab, towers, precision, mapCenter, overlayType, gridData>>
  /\ UNCHANGED <<locVars, gridVars>>

\* lines 171 and 177: if (cluster) setMapCenter(cluster)
CenterAfter(cluster) == IF cluster.kind = "null" THEN mapCenter ELSE cluster

RemoveAt(q, i) == [k \in 1..(Len(q) - 1) |-> IF k < i THEN q[k] ELSE q[k + 1]]

\* lines 165-185: reader.onload of one of the reads in flight, then the
\* effect of lines 189-193 when it changed the precision
FileLoaded ==
  /\ \E i \in 1..Len(pendingReads) :
       LET r == pendingReads[i]
           parsed == r.file
       IN /\ pendingReads' = RemoveAt(pendingReads, i)
          /\ tab' = tab
          /\ CASE parsed.shape = "array" ->
                    /\ towers' = parsed.towers
                    /\ mapCenter' = CenterAfter(findTowerClusterCenter(parsed.towers))
                    /\ gridData' = generateGrid(parsed.towers, r.precision)
                    /\ UNCHANGED precision
               [] parsed.shape = "object" ->
                    /\ towers' = parsed.towers
                    /\ precision' = parsed.precision
                    /\ mapCenter' = CenterAfter(findTowerClusterCenter(parsed.towers))
                    /\ gridData' =
                         IF parsed.precision # precision
                         THEN EffectGrid(parsed.towers, parsed.precision,
                                         generateGrid(parsed.towers, parsed.precision))
                         ELSE generateGrid(parsed.towers, parsed.precision)
               [] OTHER ->
                    UNCHANGED <<towers, precision, mapCenter, gridData>>
  /\ UNCHANGED overlayType
  /\ UNCHANGED <<locVars, gridVars>>

Next ==
  \/ MapClick
  \/ DragEnd
  \/ ContextMenu
  \/ SwitchTab
  \/ SetOverlayType
  \/ SetPrecision
  \/ FileChosen
  \/ FileLoaded

Spec == Init /\ [][Next]_vars

----------------------------------------------------------------------------
(* Claim about the App component *)

\* C10: after any sequence of tower changes, resolution changes and tab
\* switches, gridData is the grid of the current towers at the current
\* precision, and the map centre is the cluster centre of the current
\* towers (when there are towers).
C10_GridFollowsInputs ==
  /\ gridData = generateGrid(towers, precision)
  /\ towers # <<>> => mapCenter = findTowerClusterCenter(towers)

====
